---- MODULE Spec2Model ----
(***************************************************************************)
(* Model of the two monitoring scripts of cron_python:                     *)
(*   sensors-check.py  remote query -> analyze_sensor_data -> notification *)
(*   rklb-price.py     quote fetch  -> evaluate            -> notification *)
(* Each run is one pass of main(); the collaborators (ssh, yfinance, the   *)
(* ntfy endpoint) are inputs chosen when main() calls them.                *)
(***************************************************************************)
EXTENDS Integers, Sequences, FiniteSets, TLC

VARIABLES
    script,          \* which script this process runs
    pc,              \* position of main()
    env,             \* which environment values are set (truthy)
    min_checkins,    \* MIN_CHECKINS
    json_output,     \* text returned by execute_sql_query, NoText before
    analysis,        \* what analyze_sensor_data returned or raised, NoAnalysis before
    quote,           \* what the quote fetch produced, NoQuote before
    formatted_price, \* formatted_price of rklb-price main(), NoPrice before
    notifications,   \* the calls of send_notification, in order
    exit_code,       \* -1 while running, then the process exit code
    query_attempts,  \* calls of execute_sql_query
    analyzer_calls,  \* calls of analyze_sensor_data
    ssh_outcome,     \* what the ssh connection of this run did, "not run" before
    unhandled        \* the exception that reached main()'s except clause, "none" if none

vars == <<script, pc, env, min_checkins, json_output, analysis, quote,
          formatted_price, notifications, exit_code, query_attempts, analyzer_calls,
          ssh_outcome, unhandled>>

----------------------------------------------------------------------------
(* Bounds of the model *)

\* longest JSON array the remote query returns
MaxRecords == 3
\* largest MIN_CHECKINS drawn
MaxMinCheckins == 3
\* largest quoted price drawn, in cents
MaxPriceCents == 2

----------------------------------------------------------------------------
(* Check-in records and the text of the remote query *)

\* a key the JSON object does not have (dict.get then gives None or its default)
Missing == "<missing>"

Macs == {"A", "B"}
\* the values record.get('mac') is drawn from: an address, the empty string, None
MacValues == Macs \cup {"", Missing}

Locations == {"wine", "cellar"}
LocationValues == Locations \cup {Missing}

\* an element of the JSON array: an object with mac/location keys, or a non-object
Elements == [is_object : {TRUE}, mac : MacValues, location : LocationValues]
            \cup {[is_object |-> FALSE, mac |-> Missing, location |-> Missing]}

RECURSIVE SeqsUpTo(_, _)
SeqsUpTo(S, n) ==
    IF n = 0 THEN {<<>>}
    ELSE LET shorter == SeqsUpTo(S, n - 1)
         IN  shorter \cup {Append(s, e) : s \in {t \in shorter : Len(t) = n - 1}, e \in S}

\* the text execute_sql_query returns, by what json.loads makes of it:
\*   blank         empty or whitespace only
\*   malformed     not JSON, rejected by the decoder with JSONDecodeError
\*   too_deep      brackets nested beyond the interpreter's recursion limit
\*                 (such as 100000 times "["): the decoder raises RecursionError
\*   long_number   an integer literal of more than 4300 digits: the conversion of
\*                 the literal raises ValueError
\*   number, null  a JSON scalar
\*   object        a single non-empty JSON object
\*   array         a JSON array of the elements `elems`
ScalarKinds == {"number", "null"}
TextKinds == {"blank", "malformed", "too_deep", "long_number", "object", "array"}
             \cup ScalarKinds

Texts == [kind : TextKinds \ {"array"}, elems : {<<>>}]
         \cup [kind : {"array"}, elems : SeqsUpTo(Elements, MaxRecords)]

NoText == [kind |-> "none", elems |-> <<>>]

\* str.strip() of the text is empty
IsBlank(text) == text.kind = "blank"

\* json.loads: the exception the decoder raises on the text, else the value
json_loads(text) ==
    CASE text.kind \in {"malformed", "blank"} ->
            [error |-> "JSONDecodeError", type |-> "none", elems |-> <<>>]
      [] text.kind = "too_deep" ->
            [error |-> "RecursionError", type |-> "none", elems |-> <<>>]
      [] text.kind = "long_number" ->
            [error |-> "ValueError", type |-> "none", elems |-> <<>>]
      [] OTHER -> [error |-> "none", type |-> text.kind, elems |-> text.elems]

----------------------------------------------------------------------------
(* analyze_sensor_data *)

Returned(value) == [exception |-> "none", value |-> value]
Raised(exc) == [exception |-> exc, value |-> <<>>]
NoAnalysis == [exception |-> "not called", value |-> <<>>]

\* Python truthiness of record.get('mac')
Truthy(mac) == mac # Missing /\ mac # ""

\* record.get('location', 'unknown location')
GetLocation(record) ==
    IF record.location = Missing THEN "unknown location" ELSE record.location

\* the empty mac_counts / mac_locations; `order` is the dicts' insertion order
EmptyTally == [order |-> <<>>, counts |-> [m \in {} |-> 0], locations |-> [m \in {} |-> ""],
               exception |-> "none"]

\* a mutant of TallyRecord: a later record of the identifier overwrites its location
TallyRecordLastLocation(tally, record) ==
    IF tally.exception # "none" THEN tally
    ELSE IF ~record.is_object THEN [tally EXCEPT !.exception = "AttributeError"]
    ELSE IF ~Truthy(record.mac) THEN tally
    ELSE LET mac == record.mac
             seen == mac \in DOMAIN tally.counts
         IN  [order |-> IF seen THEN tally.order ELSE Append(tally.order, mac),
              counts |-> [m \in DOMAIN tally.counts \cup {mac} |->
                            IF m = mac
                            THEN (IF seen THEN tally.counts[m] ELSE 0) + 1
                            ELSE tally.counts[m]],
              locations |-> [m \in DOMAIN tally.locations \cup {mac} |->
                            IF m = mac THEN GetLocation(record) ELSE tally.locations[m]],
              exception |-> "none"]

\* one iteration of `for record in records`
TallyRecord(tally, record) ==
    IF tally.exception # "none" THEN tally
    ELSE IF ~record.is_object THEN [tally EXCEPT !.exception = "AttributeError"]
    ELSE IF ~Truthy(record.mac) THEN tally
    ELSE LET mac == record.mac
             seen == mac \in DOMAIN tally.counts
         IN  [order |-> IF seen THEN tally.order ELSE Append(tally.order, mac),
              counts |-> [m \in DOMAIN tally.counts \cup {mac} |->
                            IF m = mac
                            THEN (IF seen THEN tally.counts[m] ELSE 0) + 1
                            ELSE tally.counts[m]],
              locations |-> [m \in DOMAIN tally.locations \cup {mac} |->
                            IF m \in DOMAIN tally.locations
                            THEN tally.locations[m]
                            ELSE GetLocation(record)],
              exception |-> "none"]

RECURSIVE TallyFrom(_, _, _)
TallyFrom(records, i, tally) ==
    IF i > Len(records) THEN tally
    ELSE TallyFrom(records, i + 1, TallyRecord(tally, records[i]))

\* a mutant of BelowMinimum: the comparison is not strict
AtMostMinimum(count, minimum) == count <= minimum

\* count < MIN_CHECKINS
BelowMinimum(count, minimum) == count < minimum

RECURSIVE MissingFrom(_, _, _)
\* the loop over mac_counts.items() that builds missing_checkins
MissingFrom(tally, i, minimum) ==
    IF i > Len(tally.order) THEN <<>>
    ELSE LET mac == tally.order[i]
             rest == MissingFrom(tally, i + 1, minimum)
         IN  IF BelowMinimum(tally.counts[mac], minimum)
             THEN <<(<<mac, tally.locations[mac]>>)>> \o rest
             ELSE rest

\* what `for record in records` does with the parsed value
IterateRecords(parsed) ==
    CASE parsed.type \in ScalarKinds -> [EmptyTally EXCEPT !.exception = "TypeError"]
      [] parsed.type = "object" -> [EmptyTally EXCEPT !.exception = "AttributeError"]
      [] OTHER -> TallyFrom(parsed.elems, 1, EmptyTally)

analyze_sensor_data(text, minimum) ==
    IF IsBlank(text) THEN Returned(<<>>)
    ELSE LET parsed == json_loads(text)
         IN  IF parsed.error = "JSONDecodeError" THEN Returned(<<>>)
             ELSE IF parsed.error # "none" THEN Raised(parsed.error)
             ELSE LET tally == IterateRecords(parsed)
                  IN  IF tally.exception # "none" THEN Raised(tally.exception)
                      ELSE Returned(MissingFrom(tally, 1, minimum))

----------------------------------------------------------------------------
(* send_notification (both scripts) *)

\* what the ntfy endpoint does with the POST
DeliveryOutcomes == {"2xx", "HTTPStatusError", "network error"}

\* str(priority) for the priorities the scripts pass as int
DecimalDigits == <<"0", "1", "2", "3", "4", "5">>
str_int(n) == DecimalDigits[n + 1]

\* the number a Priority header stands for
PriorityLevel(header) == CHOOSE n \in 0..5 : str_int(n) = header

\* the default of the `priority` parameter
DefaultPriority == "3"

\* `if not NTFY_HOST or not NTFY_SENSOR_TOPIC` is false: the endpoint is configured
EndpointSet(e) == e.NTFY_HOST /\ e.NTFY_TOPIC

\* how the call of sensors-check.py's send_notification ends: it returns before the
\* POST when the endpoint is not set, and has a handler of its own for HTTPStatusError
DeliveryResult(e, outcome) ==
    IF ~EndpointSet(e) THEN "not configured"
    ELSE IF outcome = "2xx" THEN "sent"
    ELSE IF outcome = "HTTPStatusError" THEN "HTTPStatusError"
    ELSE "Exception"

\* a mutant of Propagates: the handler of the general exception is missing
PropagatesUncaught(result) == result = "Exception"

\* whether an exception leaves send_notification: every failure is caught and logged
Propagates(result) == FALSE

send_notification(e, title, message, emojis, priority, outcome) ==
    LET result == DeliveryResult(e, outcome)
    IN  [title |-> title, message |-> message, tags |-> emojis, priority |-> priority,
         result |-> result, raised |-> Propagates(result)]

\* how the call of rklb-price.py's send_notification ends: it tests no environment
\* value, posts to the URL it builds from whatever os.getenv gives, and has the one
\* handler, so the answer to the POST alone decides
QuoteDeliveryResult(outcome) ==
    IF outcome = "2xx" THEN "sent" ELSE "Exception"

\* whether an exception leaves rklb-price.py's send_notification
QuotePropagates(result) == FALSE

quote_send_notification(title, message, emojis, priority, outcome) ==
    LET result == QuoteDeliveryResult(outcome)
    IN  [title |-> title, message |-> message, tags |-> emojis, priority |-> priority,
         result |-> result, raised |-> QuotePropagates(result)]

----------------------------------------------------------------------------
(* sensors-check.py: main() *)

EnvNames == {"NTFY_HOST", "NTFY_TOPIC", "SSH_HOST", "SSH_USERNAME", "DATABASE_PATH"}

\* a mutant of MissingVars: DATABASE_PATH is not among the required values
MissingVarsNoDatabase(e) == {name \in EnvNames \ {"DATABASE_PATH"} : ~e[name]}

\* missing_vars: the required values that are not set
MissingVars(e) == {name \in EnvNames : ~e[name]}

\* a mutant of execute_sql_query: the connection error is logged and "" returned
execute_sql_query_swallow(outcome) ==
    IF outcome.error THEN [exception |-> "none", stdout |-> [kind |-> "blank", elems |-> <<>>]]
    ELSE [exception |-> "none", stdout |-> outcome.text]

\* execute_sql_query: result.stdout, or asyncssh.Error logged and raised again
execute_sql_query(outcome) ==
    IF outcome.error THEN [exception |-> "asyncssh.Error", stdout |-> NoText]
    ELSE [exception |-> "none", stdout |-> outcome.text]

\* what the ssh connection does: fails, or runs the command and gives its output
SshOutcomes == {[error |-> TRUE, text |-> NoText]} \cup [error : {FALSE}, text : Texts]

SensorTags == <<"warning", "thermometer">>

\* the "all sensors may be offline" notification
OfflineNotice ==
    [title |-> "Sensor Check-in Alert", message |-> "No sensor data received",
     priority |-> "4", emojis |-> SensorTags]

\* the "missing check-ins" notification
MissingNotice ==
    [title |-> "Sensor Check-in Alert", message |-> "Missing check-ins detected",
     priority |-> "2", emojis |-> SensorTags]

\* a mutant of HasMissing: the notification is sent whatever the analysis found
HasMissingAlways(missing_checkins) == TRUE

\* `if missing_checkins:`
HasMissing(missing_checkins) == missing_checkins # <<>>

\* sys.exit(code), or main() returning (code 0)
Exit(code) == pc' = "exited" /\ exit_code' = code

\* the except clause of main(): log, sys.exit(1)
ExitUnhandled(exc) == unhandled' = exc /\ Exit(1)

CheckConfig ==
    /\ script = "sensors-check"
    /\ pc = "start"
    /\ IF MissingVars(env) # {} THEN Exit(1) ELSE pc' = "query" /\ exit_code' = exit_code
    /\ UNCHANGED <<script, env, min_checkins, json_output, analysis, quote, formatted_price,
                   notifications, query_attempts, analyzer_calls, ssh_outcome, unhandled>>

ExecuteQuery ==
    /\ script = "sensors-check"
    /\ pc = "query"
    /\ \E outcome \in SshOutcomes :
         LET r == execute_sql_query(outcome)
         IN  /\ ssh_outcome' = IF outcome.error THEN "error" ELSE "ok"
             /\ query_attempts' = query_attempts + 1
             /\ IF r.exception # "none"
                THEN ExitUnhandled(r.exception) /\ json_output' = json_output
                ELSE /\ json_output' = r.stdout
                     /\ pc' = "have_output"
                     /\ UNCHANGED <<exit_code, unhandled>>
    /\ UNCHANGED <<script, env, min_checkins, analysis, quote, formatted_price,
                   notifications, analyzer_calls>>

\* `if not json_output.strip():` - notify that all sensors may be offline, return
NotifyOffline ==
    /\ script = "sensors-check"
    /\ pc = "have_output"
    /\ IsBlank(json_output)
    /\ \E outcome \in DeliveryOutcomes :
         LET n == send_notification(env, OfflineNotice.title, OfflineNotice.message,
                                    OfflineNotice.emojis, OfflineNotice.priority, outcome)
         IN  /\ notifications' = Append(notifications, n)
             /\ IF n.raised THEN ExitUnhandled("Exception")
                ELSE Exit(0) /\ unhandled' = unhandled
    /\ UNCHANGED <<script, env, min_checkins, json_output, analysis, quote, formatted_price,
                   query_attempts, analyzer_calls, ssh_outcome>>

Analyze ==
    /\ script = "sensors-check"
    /\ pc = "have_output"
    /\ ~IsBlank(json_output)
    /\ analyzer_calls' = analyzer_calls + 1
    /\ LET r == analyze_sensor_data(json_output, min_checkins)
       IN  /\ analysis' = r
           /\ IF r.exception # "none" THEN ExitUnhandled(r.exception)
              ELSE pc' = "analyzed" /\ UNCHANGED <<exit_code, unhandled>>
    /\ UNCHANGED <<script, env, min_checkins, json_output, quote, formatted_price,
                   notifications, query_attempts, ssh_outcome>>

\* `if missing_checkins:` - send the warning, main() returns
ReportMissing ==
    /\ script = "sensors-check"
    /\ pc = "analyzed"
    /\ HasMissing(analysis.value)
    /\ \E outcome \in DeliveryOutcomes :
         LET n == send_notification(env, MissingNotice.title, MissingNotice.message,
                                    MissingNotice.emojis, MissingNotice.priority, outcome)
         IN  /\ notifications' = Append(notifications, n)
             /\ IF n.raised THEN ExitUnhandled("Exception")
                ELSE Exit(0) /\ unhandled' = unhandled
    /\ UNCHANGED <<script, env, min_checkins, json_output, analysis, quote, formatted_price,
                   query_attempts, analyzer_calls, ssh_outcome>>

\* `else:` - log that all sensors have sufficient check-ins, main() returns
LogSufficient ==
    /\ script = "sensors-check"
    /\ pc = "analyzed"
    /\ ~HasMissing(analysis.value)
    /\ Exit(0)
    /\ UNCHANGED <<script, env, min_checkins, json_output, analysis, quote, formatted_price,
                   notifications, query_attempts, analyzer_calls, ssh_outcome, unhandled>>

----------------------------------------------------------------------------
(* rklb-price.py: main() *)

\* a value of stock.info.get(...): None, or a number (prices in cents, changes in
\* hundredths of a percent)
None == [is_none |-> TRUE, v |-> 0]
Num(n) == [is_none |-> FALSE, v |-> n]

PriceValues == {None} \cup {Num(n) : n \in 0..MaxPriceCents}
ChangeValues == {None} \cup {Num(n) : n \in {-1, 0, 1}}

\* what the fetch of lines 59-61 does: raises, or gives the two values
Quotes == {[raises |-> TRUE, current_price |-> None, price_change |-> None]}
          \cup [raises : {FALSE}, current_price : PriceValues, price_change : ChangeValues]

NoQuote == [raises |-> FALSE, current_price |-> None, price_change |-> None]

\* f"${current_price:.2f}" of a price in cents: the dollars and the two decimals
FormatPrice(price) == [dollars |-> price.v \div 100, decimals |-> price.v % 100]
NoPrice == [dollars |-> -1, decimals |-> -1]

\* the direction tag chosen from the sign of price_change
DirectionEmoji(price_change) ==
    IF price_change.v > 0 THEN "arrow_up"
    ELSE IF price_change.v < 0 THEN "arrow_down"
    ELSE "arrow_up_down"

\* a mutant of QuoteErrorNotice: the priority argument is left out
QuoteErrorNoticeDefault(message) ==
    [title |-> "RKLB quote error", message |-> message,
     priority |-> DefaultPriority, emojis |-> <<"skull">>]

\* the error notification; line 68 passes "4", line 98 passes 4
QuoteErrorNotice(message) ==
    [title |-> "RKLB quote error", message |-> message,
     priority |-> IF message = "Yahoo down?" THEN str_int(4) ELSE "4",
     emojis |-> <<"skull">>]

\* the result notification, sent at the default priority
QuoteNotice(price_change) ==
    [title |-> "RKLB quote", message |-> "price / change",
     priority |-> DefaultPriority, emojis |-> <<DirectionEmoji(price_change)>>]

FetchQuote ==
    /\ script = "rklb-price"
    /\ pc = "start"
    /\ \E q \in Quotes :
         /\ quote' = q
         /\ pc' = IF q.raises THEN "except" ELSE "fetched"
    /\ UNCHANGED <<script, env, min_checkins, json_output, analysis, formatted_price,
                   notifications, exit_code, query_attempts, analyzer_calls, ssh_outcome,
                   unhandled>>

\* `if current_price is None:` - send the error notification, return
QuoteMissing ==
    /\ script = "rklb-price"
    /\ pc = "fetched"
    /\ quote.current_price.is_none
    /\ \E outcome \in DeliveryOutcomes :
         LET notice == QuoteErrorNotice("Yahoo data error?")
             n == quote_send_notification(notice.title, notice.message,
                                    notice.emojis, notice.priority, outcome)
         IN  /\ notifications' = Append(notifications, n)
             /\ IF n.raised THEN pc' = "except" /\ exit_code' = exit_code ELSE Exit(0)
    /\ UNCHANGED <<script, env, min_checkins, json_output, analysis, quote, formatted_price,
                   query_attempts, analyzer_calls, ssh_outcome, unhandled>>

\* lines 73-91: format, choose the tag, send the result notification
QuoteResult ==
    /\ script = "rklb-price"
    /\ pc = "fetched"
    /\ ~quote.current_price.is_none
    /\ formatted_price' = FormatPrice(quote.current_price)
    /\ IF quote.price_change.is_none
       THEN \* f"{price_change:.2f}%" raises TypeError
            /\ pc' = "except"
            /\ UNCHANGED <<notifications, exit_code>>
       ELSE \E outcome \in DeliveryOutcomes :
              LET notice == QuoteNotice(quote.price_change)
                  n == quote_send_notification(notice.title, notice.message,
                                         notice.emojis, notice.priority, outcome)
              IN  /\ notifications' = Append(notifications, n)
                  /\ IF n.raised THEN pc' = "except" /\ exit_code' = exit_code ELSE Exit(0)
    /\ UNCHANGED <<script, env, min_checkins, json_output, analysis, quote,
                   query_attempts, analyzer_calls, ssh_outcome, unhandled>>

\* `except Exception as e:` - log, send the error notification, main() returns
QuoteExcept ==
    /\ script = "rklb-price"
    /\ pc = "except"
    /\ \E outcome \in DeliveryOutcomes :
         LET notice == QuoteErrorNotice("Yahoo down?")
             n == quote_send_notification(notice.title, notice.message,
                                    notice.emojis, notice.priority, outcome)
         IN  /\ notifications' = Append(notifications, n)
             /\ IF n.raised THEN ExitUnhandled("Exception")
                ELSE Exit(0) /\ unhandled' = unhandled
    /\ UNCHANGED <<script, env, min_checkins, json_output, analysis, quote, formatted_price,
                   query_attempts, analyzer_calls, ssh_outcome>>

----------------------------------------------------------------------------
(* The runs of the two scripts *)

Envs == [EnvNames -> BOOLEAN]

\* the values rklb-price.py reads: NTFY_HOST and NTFY_EOD_TOPIC
QuoteEnvs == {e \in Envs : ~e.SSH_HOST /\ ~e.SSH_USERNAME /\ ~e.DATABASE_PATH}

MinCheckinsValues == 0..MaxMinCheckins

\* MIN_CHECKINS when the environment does not set it
DefaultMinCheckins == 2

InitRun ==
    /\ pc = "start"
    /\ json_output = NoText
    /\ analysis = NoAnalysis
    /\ quote = NoQuote
    /\ formatted_price = NoPrice
    /\ notifications = <<>>
    /\ exit_code = -1
    /\ query_attempts = 0
    /\ analyzer_calls = 0
    /\ ssh_outcome = "not run"
    /\ unhandled = "none"

Init ==
    /\ \/ script = "sensors-check" /\ env \in Envs /\ min_checkins \in MinCheckinsValues
       \/ script = "rklb-price" /\ env \in QuoteEnvs /\ min_checkins = DefaultMinCheckins
    /\ InitRun

Next ==
    \/ CheckConfig
    \/ ExecuteQuery
    \/ NotifyOffline
    \/ Analyze
    \/ ReportMissing
    \/ LogSufficient
    \/ FetchQuote
    \/ QuoteMissing
    \/ QuoteResult
    \/ QuoteExcept

Spec == Init /\ [][Next]_vars

----------------------------------------------------------------------------
(* analyze_sensor_data called on its own, on every text and minimum count *)

InitAnalyze ==
    /\ script = "sensors-check"
    /\ env \in {[name \in EnvNames |-> TRUE]}
    /\ min_checkins \in MinCheckinsValues
    /\ json_output \in Texts
    /\ pc = "call"
    /\ analysis = NoAnalysis
    /\ quote = NoQuote
    /\ formatted_price = NoPrice
    /\ notifications = <<>>
    /\ exit_code = -1
    /\ query_attempts = 0
    /\ analyzer_calls = 0
    /\ ssh_outcome = "not run"
    /\ unhandled = "none"

CallAnalyzer ==
    /\ pc = "call"
    /\ analysis' = analyze_sensor_data(json_output, min_checkins)
    /\ analyzer_calls' = analyzer_calls + 1
    /\ pc' = "returned"
    /\ UNCHANGED <<script, env, min_checkins, json_output, quote, formatted_price,
                   notifications, exit_code, query_attempts, ssh_outcome, unhandled>>

NextAnalyze == CallAnalyzer

SpecAnalyze == InitAnalyze /\ [][NextAnalyze]_vars

----------------------------------------------------------------------------
(* What the properties speak of, stated without the analyzer's own tallies *)

\* the text is a JSON array whose elements are all record objects
IsRecordArray(text) ==
    text.kind = "array" /\ \A i \in DOMAIN text.elems : text.elems[i].is_object

\* the identifiers that occur in the records: the non-empty values of `mac`
Identifiers(elems) == {elems[i].mac : i \in DOMAIN elems} \ {"", Missing}

\* the number of records of identifier m
Occurrences(m, elems) == Cardinality({i \in DOMAIN elems : elems[i].mac = m})

\* the location of the first record of identifier m, in input order
FirstLocation(m, elems) ==
    LET first == CHOOSE i \in DOMAIN elems :
                    /\ elems[i].mac = m
                    /\ \A j \in 1..(i - 1) : elems[j].mac # m
    IN  GetLocation(elems[first])

\* the positions of identifier m in the analyzer's output
OutputPositions(m, out) == {i \in DOMAIN out : out[i][1] = m}

\* some identifier of the records has fewer records than the minimum count
SomeBelowMinimum(elems, minimum) ==
    \E m \in Identifiers(elems) : Occurrences(m, elems) < minimum

IsOfflineNotification(n) ==
    /\ n.message = "No sensor data received"
    /\ PriorityLevel(n.priority) > PriorityLevel(MissingNotice.priority)

IsMissingNotification(n) ==
    n.message = "Missing check-ins detected" /\ n.priority = "2"

IsQuoteError(n) == n.title = "RKLB quote error"
IsQuoteResult(n) == n.title = "RKLB quote"

RequiredConfig == {"NTFY_HOST", "NTFY_TOPIC", "SSH_HOST", "SSH_USERNAME", "DATABASE_PATH"}
ConfigMissing == \E name \in RequiredConfig : ~env[name]

\* the fetch succeeded with non-empty data: check-in records from the query, each
\* with its identifier, or a price and its change from the quote API
FetchedData ==
    \/ /\ script = "sensors-check"
       /\ ssh_outcome = "ok"
       /\ IsRecordArray(json_output)
       /\ json_output.elems # <<>>
       /\ \A i \in DOMAIN json_output.elems : json_output.elems[i].mac \in Macs
    \/ /\ script = "rklb-price"
       /\ ~quote.raises
       /\ ~quote.current_price.is_none
       /\ ~quote.price_change.is_none

----------------------------------------------------------------------------
(* Properties of analyze_sensor_data, under SpecAnalyze *)

\* C1: on every sequence of check-in records and every minimum count, an identifier
\* of the records is in the output iff it has fewer records than the minimum count,
\* the output holds nothing but identifiers of the records, and an empty input
\* (blank text or an empty array) gives an empty output.
C1_ReportedIffBelowMinimum ==
    /\ (pc = "returned" /\ IsRecordArray(json_output)) =>
          /\ analysis.exception = "none"
          /\ \A m \in Identifiers(json_output.elems) :
                OutputPositions(m, analysis.value) # {}
                    <=> Occurrences(m, json_output.elems) < min_checkins
          /\ \A i \in DOMAIN analysis.value :
                analysis.value[i][1] \in Identifiers(json_output.elems)
          /\ json_output.elems = <<>> => analysis.value = <<>>
    /\ (pc = "returned" /\ IsBlank(json_output)) => analysis = Returned(<<>>)

\* a run in which one identifier is reported and another, with enough records, is not
C1_Witness ==
    /\ pc = "returned"
    /\ IsRecordArray(json_output)
    /\ min_checkins = 2
    /\ Occurrences("A", json_output.elems) = 2
    /\ Occurrences("B", json_output.elems) = 1
    /\ OutputPositions("A", analysis.value) = {}
    /\ OutputPositions("B", analysis.value) # {}

\* C2: every identifier with fewer records than the minimum count is in the output
\* exactly once, paired with the location of its first record in input order.
C2_OnceWithFirstLocation ==
    (pc = "returned" /\ IsRecordArray(json_output)) =>
        \A m \in Identifiers(json_output.elems) :
            Occurrences(m, json_output.elems) < min_checkins =>
                /\ Cardinality(OutputPositions(m, analysis.value)) = 1
                /\ \A i \in OutputPositions(m, analysis.value) :
                      analysis.value[i][2] = FirstLocation(m, json_output.elems)

\* identifier A is reported with the location of its first record although its
\* second record carries another location
C2_Witness ==
    /\ pc = "returned"
    /\ IsRecordArray(json_output)
    /\ Len(json_output.elems) = 2
    /\ json_output.elems[1] = [is_object |-> TRUE, mac |-> "A", location |-> "wine"]
    /\ json_output.elems[2] = [is_object |-> TRUE, mac |-> "A", location |-> "cellar"]
    /\ min_checkins = 3
    /\ analysis.value = <<(<<"A", "wine">>)>>

\* C3: on every text that is not a JSON array of record objects (blank, not JSON, a
\* scalar, a single object, an array holding a non-object) the analyzer returns the
\* empty result and raises nothing.
C3_EmptyOnAnyMalformedText ==
    (pc = "returned" /\ ~IsRecordArray(json_output)) => analysis = Returned(<<>>)

----------------------------------------------------------------------------
(* Properties of the runs, under Spec *)

\* C4: a sensor run whose remote query failed with a connection error or returned
\* empty output sends exactly one notification before it ends, the "offline" one,
\* at a priority above that of the "missing check-ins" notification.
C4_OfflineNoticeOnFailedOrEmptyQuery ==
    (/\ script = "sensors-check"
     /\ pc = "exited"
     /\ \/ ssh_outcome = "error"
        \/ ssh_outcome = "ok" /\ IsBlank(json_output))
    => /\ Len(notifications) = 1
       /\ IsOfflineNotification(notifications[1])

\* C5: a sensor run whose query returned non-empty text that is not JSON (the
\* decoder rejects it) ends as a run with empty output does: with the "offline"
\* notification sent.
C5_MalformedOutputTakesNoDataPath ==
    (/\ script = "sensors-check"
     /\ pc = "exited"
     /\ ssh_outcome = "ok"
     /\ json_output.kind = "malformed")
    => /\ Len(notifications) = 1
       /\ IsOfflineNotification(notifications[1])

\* C6: no call of send_notification raises, and a run that called it ends as it
\* does when the delivery succeeds, whatever the delivery did: with that one call
\* and exit code 0.
C6_DeliveryFailureContained ==
    /\ \A i \in DOMAIN notifications : ~notifications[i].raised
    /\ (pc = "exited" /\ notifications # <<>>) =>
          /\ Len(notifications) = 1
          /\ unhandled = "none"
          /\ exit_code = 0

\* a run that ended after a delivery that failed with an exception
C6_Witness ==
    /\ pc = "exited"
    /\ Len(notifications) = 1
    /\ notifications[1].result = "Exception"
    /\ EndpointSet(env)
    /\ exit_code = 0

\* C7: in a sensor run whose remote query failed with a connection error the
\* analyzer is not called, the query was attempted once, and the process has
\* exited with a non-zero code.
C7_ConnectionErrorIsFatal ==
    (script = "sensors-check" /\ ssh_outcome = "error") =>
        /\ analyzer_calls = 0
        /\ analysis = NoAnalysis
        /\ query_attempts = 1
        /\ pc = "exited"
        /\ exit_code # 0

\* a sensor run that ended on the connection error
C7_Witness ==
    /\ script = "sensors-check"
    /\ ssh_outcome = "error"
    /\ unhandled = "asyncssh.Error"
    /\ pc = "exited"
    /\ exit_code = 1

\* C8 as stated: every run whose fetch succeeded with non-empty data ends with
\* exactly one result notification sent and exit code 0.
C8_AlwaysOneResultNotification ==
    (pc = "exited" /\ FetchedData) =>
        /\ exit_code = 0
        /\ Len(notifications) = 1
        /\ \/ IsMissingNotification(notifications[1])
           \/ IsQuoteResult(notifications[1])

\* C8 as amended: every run whose fetch succeeded with non-empty data ends with exit
\* code 0; a quote run has sent exactly one notification, the result notification
\* at the default priority tagged with the direction of the change; a sensor run
\* has sent exactly one notification, the "missing check-ins" warning, when some
\* identifier has fewer records than the minimum count, and none when every
\* identifier has at least the minimum count.
C8_ResultNotificationUnlessAllSufficient ==
    (pc = "exited" /\ FetchedData) =>
        /\ exit_code = 0
        /\ script = "rklb-price" =>
              /\ Len(notifications) = 1
              /\ IsQuoteResult(notifications[1])
              /\ notifications[1].priority = DefaultPriority
              /\ notifications[1].tags \in
                    {<<"arrow_up">>, <<"arrow_down">>, <<"arrow_up_down">>}
        /\ (script = "sensors-check" /\ SomeBelowMinimum(json_output.elems, min_checkins)) =>
              /\ Len(notifications) = 1
              /\ IsMissingNotification(notifications[1])
        /\ (script = "sensors-check" /\ ~SomeBelowMinimum(json_output.elems, min_checkins)) =>
              notifications = <<>>

\* a sensor run in which every sensor has the minimum count of check-ins: it ended
\* with exit code 0 and no notification
C8_Witness ==
    /\ script = "sensors-check"
    /\ pc = "exited"
    /\ FetchedData
    /\ min_checkins = 2
    /\ Identifiers(json_output.elems) = {"A"}
    /\ Occurrences("A", json_output.elems) = 2
    /\ notifications = <<>>
    /\ exit_code = 0

\* C9: a sensor run with a required configuration value missing exits with code 1
\* with no remote query attempted and no notification sent; with all of them set,
\* a run in which no error reached main()'s except clause exits with code 0.
C9_MissingConfigIsFatal ==
    /\ (script = "sensors-check" /\ ConfigMissing) =>
          /\ query_attempts = 0
          /\ notifications = <<>>
          /\ pc \in {"start", "exited"}
          /\ pc = "exited" => exit_code = 1
    /\ (script = "sensors-check" /\ ~ConfigMissing /\ pc = "exited" /\ unhandled = "none") =>
          exit_code = 0

\* a sensor run that exited with code 1 because DATABASE_PATH alone is not set
C9_Witness ==
    /\ script = "sensors-check"
    /\ \A name \in RequiredConfig : env[name] <=> name # "DATABASE_PATH"
    /\ pc = "exited"
    /\ exit_code = 1
    /\ query_attempts = 0
    /\ notifications = <<>>

\* C10: a quote run whose fetch raised or returned no price has, when it ends, sent
\* exactly one notification, the error notification at priority 4 tagged "skull",
\* formatted no price, and exits with code 0; and no run sends both an error
\* notification and a result notification.
C10_QuoteErrorNotifiedOnce ==
    /\ (/\ script = "rklb-price"
        /\ pc = "exited"
        /\ (quote.raises \/ quote.current_price.is_none))
       => /\ Len(notifications) = 1
          /\ IsQuoteError(notifications[1])
          /\ PriorityLevel(notifications[1].priority) = 4
          /\ notifications[1].tags = <<"skull">>
          /\ formatted_price = NoPrice
          /\ exit_code = 0
    /\ ~(\E i, j \in DOMAIN notifications :
            IsQuoteError(notifications[i]) /\ IsQuoteResult(notifications[j]))

\* a quote run whose fetch raised: it ended with the one error notification
C10_Witness ==
    /\ script = "rklb-price"
    /\ pc = "exited"
    /\ quote.raises
    /\ Len(notifications) = 1
    /\ notifications[1].message = "Yahoo down?"
    /\ notifications[1].priority = "4"
    /\ exit_code = 0

====
